---- MODULE Spec2Model ----
\* The two /chat relays of globetour: app.py (local GPT-2) and chatbot.py
\* (remote chat-completion API), one handler invocation per worker.
EXTENDS Integers, Sequences, FiniteSets, TLC

VARIABLES handle, legacyJson, pc, req, locals, calls, result, resp, hist

vars == <<handle, legacyJson, pc, req, locals, calls, result, resp, hist>>

\* ------------------------------------------------------------------ bounds
\* Longest string carried by a request field.
MaxLen == 2

\* -------------------------------------------------------- program constants
MaxLength == 100
NumReturnSequences == 1
NoRepeatNgramSize == 2
\* temperature=0.7, in tenths
TemperatureTenths == 7
MaxTokens == 500

\* ------------------------------------------------------------------ values
\* A string is a sequence of characters; a JSON value is a string or null.
Chars == {" ", "F"}
Strings == UNION {[1..n -> Chars] : n \in 0..MaxLen}
Str(s) == [type |-> "str", s |-> s]
JsonNull == [type |-> "null", s |-> <<>>]
JValues == {Str(s) : s \in Strings} \cup {JsonNull}

Workers == {"w1", "w2"}
Variants == {"local", "remote"}
Methods == {"POST", "OPTIONS"}
ContentTypes == {"application/json", "text/plain"}
NoOrigin == "none"
Origins == {NoOrigin, "http://globe.example"}

\* The keys each handler reads from the JSON body.
RequiredFields(variant) ==
    IF variant = "local" THEN {"message"} ELSE {"country1", "country2"}

\* A request body: not JSON at all, a JSON array, or a JSON object.
Bodies(variant) ==
    {[kind |-> "malformed", obj |-> <<>>], [kind |-> "array", obj |-> <<>>]}
    \cup {[kind |-> "object", obj |-> o] :
            o \in UNION {[K -> JValues] : K \in SUBSET RequiredFields(variant)}}

Requests ==
    UNION {[variant : {v}, method : Methods, contentType : ContentTypes,
            origin : Origins, body : Bodies(v)] : v \in Variants}

ShortBody(b) == \A k \in DOMAIN b.obj : Len(b.obj[k].s) <= 1

\* The requests used when two workers run side by side.
ConcRequests ==
    {rq \in Requests :
        /\ ShortBody(rq.body)
        /\ rq.origin = NoOrigin
        /\ rq.variant = "remote" => rq.contentType = "application/json"}

NoReq ==
    [variant |-> "none", method |-> "none", contentType |-> "none",
     origin |-> NoOrigin, body |-> [kind |-> "none", obj |-> <<>>]]
NoLocals ==
    [country1 |-> <<>>, country2 |-> <<>>, user_input |-> JsonNull,
     messages |-> <<>>]
NoResult == [kind |-> "none", msg |-> "", choices |-> <<>>, text |-> JsonNull]
NoResp ==
    [status |-> 0, ctype |-> "none", key |-> "", value |-> JsonNull,
     headers |-> {}]

\* What the backends can do with a call.
BackendFaults == {"Connection error.", "Incorrect API key provided"}
Continuations == {<<>>, <<"R">>}
Contents == {Str(c) : c \in Continuations} \cup {JsonNull}

\* ------------------------------------------------------------ pure helpers
\* str.strip(): drop leading and trailing whitespace.
RECURSIVE LStrip(_)
LStrip(s) == IF s # <<>> /\ Head(s) = " " THEN LStrip(Tail(s)) ELSE s
RECURSIVE RStrip(_)
RStrip(s) ==
    IF s # <<>> /\ s[Len(s)] = " " THEN RStrip(SubSeq(s, 1, Len(s) - 1)) ELSE s
Strip(s) == RStrip(LStrip(s))

\* dict.get(key, default)
Get(obj, key, default) == IF key \in DOMAIN obj THEN obj[key] ELSE default

\* A request object kept in one module-level slot for all handlers.
RequestOfAny(w) == req[CHOOSE v \in Workers : pc[v] # "idle"]
\* The request the running handler sees through flask's request proxy.
RequestOf(w) == req[w]

ACAO == "Access-Control-Allow-Origin"
ACAH == "Access-Control-Allow-Headers"
ACAM == "Access-Control-Allow-Methods"
PreflightHeaders == {<<ACAO, "*">>, <<ACAH, "Content-Type">>, <<ACAM, "POST">>}

\* flask_cors after_request hook of CORS(app) with default options: without an
\* Origin header the wildcard is sent, with one the origin is echoed.
CorsHeaders(rq) ==
    IF rq.origin = NoOrigin THEN {<<ACAO, "*">>} ELSE {<<ACAO, rq.origin>>}
AfterRequest(rq, r) ==
    IF rq.variant = "remote"
    THEN [r EXCEPT !.headers = @ \cup CorsHeaders(rq)]
    ELSE r

\* jsonify({key: value}), status
Jsonify(key, value, status) ==
    [status |-> status, ctype |-> "json", key |-> key, value |-> value,
     headers |-> {}]
AddHeader(r, name, value) == [r EXCEPT !.headers = @ \cup {<<name, value>>}]

\* The except branch answering as if the call had succeeded.
ErrorResponseOk(msg) == Jsonify("response", Str(<<msg>>), 200)
\* return jsonify({'error': str(e)}), 500
ErrorResponse(msg) == Jsonify("error", Str(<<msg>>), 500)

\* return jsonify({'error': 'Both countries are required'}), 400
RejectResponse == Jsonify("error", Str(<<"Both countries are required">>), 400)

\* A success envelope that drops the generated text.
SuccessResponseNoBody(text) ==
    AddHeader(Jsonify("response", Str(<<>>), 200), ACAO, "*")
\* response = jsonify({'response': text}); add Access-Control-Allow-Origin
SuccessResponse(text) == AddHeader(Jsonify("response", text, 200), ACAO, "*")

\* werkzeug's page for an exception that no handler catches (app.py has none).
HtmlError(status) ==
    [status |-> status, ctype |-> "html", key |-> "", value |-> JsonNull,
     headers |-> {}]

\* flask's automatic answer to OPTIONS on a route registered without it.
AutomaticOptionsResponse ==
    [status |-> 200, ctype |-> "none", key |-> "", value |-> JsonNull,
     headers |-> {<<"Allow", "POST, OPTIONS">>}]

SystemInstruction ==
    "You are an expert in international relations and geopolitics."
TemplateHead == "Provide a detailed analysis of the relationship between "
TemplateAnd == " and "
TemplateTail ==
    ", covering: 1. Current diplomatic relations 2. Economic partnerships and trade 3. Historical context and key events, including wars and changes that happened because of it 4. Current challenges and opportunities Please provide factual, up-to-date information, and keep it under 400 words"

\* The template with country1 interpolated twice.
UserPromptFirstOnly(country1, country2) ==
    <<TemplateHead>> \o country1 \o <<TemplateAnd>> \o country1 \o <<TemplateTail>>
\* The f-string of the user message.
UserPrompt(country1, country2) ==
    <<TemplateHead>> \o country1 \o <<TemplateAnd>> \o country2 \o <<TemplateTail>>

Messages(country1, country2) ==
    << [role |-> "system", content |-> <<SystemInstruction>>],
       [role |-> "user", content |-> UserPrompt(country1, country2)] >>

CompletionArgs(messages) ==
    [model |-> "gpt-3.5-turbo", messages |-> messages,
     temperature |-> TemperatureTenths, max_tokens |-> MaxTokens]

GenerateArgs(user_input) ==
    [prompt |-> user_input, max_length |-> MaxLength,
     num_return_sequences |-> NumReturnSequences,
     no_repeat_ngram_size |-> NoRepeatNgramSize]

\* -------------------------------------------------------------- bookkeeping
Set(f, w, v) == [f EXCEPT ![w] = v]
Stage(w, s) == Set(hist, w, Append(hist[w], s))

\* The handler of worker w returns r: the request is over.
Respond(w, r, stage) ==
    /\ resp' = Set(resp, w, AfterRequest(RequestOf(w), r))
    /\ pc' = Set(pc, w, "done")
    /\ hist' = Stage(w, stage)

TypeOK ==
    /\ handle = "loaded"
    /\ legacyJson \in BOOLEAN
    /\ \A w \in Workers :
        /\ pc[w] \in {"idle", "received", "parsed", "validated", "prompted",
                      "completed", "generated", "done"}
        /\ req[w] \in Requests \cup {NoReq}

Init ==
    /\ handle = "loaded"
    /\ legacyJson \in BOOLEAN
    /\ pc = [w \in Workers |-> "idle"]
    /\ req = [w \in Workers |-> NoReq]
    /\ locals = [w \in Workers |-> NoLocals]
    /\ calls = [w \in Workers |-> <<>>]
    /\ result = [w \in Workers |-> NoResult]
    /\ resp = [w \in Workers |-> NoResp]
    /\ hist = [w \in Workers |-> <<>>]

\* jsonify({'status': 'ok'}) with the three preflight headers
PreflightResponse ==
    [Jsonify("status", Str(<<"ok">>), 200) EXCEPT !.headers = PreflightHeaders]

\* ------------------------------------------------------------------ actions
\* A request for /chat reaches the view function of a free worker.
Arrive(w, rq) ==
    /\ pc[w] = "idle"
    /\ req' = Set(req, w, rq)
    /\ pc' = Set(pc, w, "received")
    /\ hist' = Set(hist, w, <<"Received">>)
    /\ UNCHANGED <<handle, legacyJson, locals, calls, result, resp>>

\* chatbot.py: if request.method == 'OPTIONS'
Preflight(w) ==
    /\ pc[w] = "received"
    /\ RequestOf(w).variant = "remote"
    /\ RequestOf(w).method = "OPTIONS"
    /\ Respond(w, PreflightResponse, "Emitted")
    /\ UNCHANGED <<handle, legacyJson, req, locals, calls, result>>

\* app.py: the route lists POST only, so flask answers OPTIONS by itself and
\* chat() is not entered.
AutomaticOptions(w) ==
    /\ pc[w] = "received"
    /\ RequestOf(w).variant = "local"
    /\ RequestOf(w).method = "OPTIONS"
    /\ Respond(w, AutomaticOptionsResponse, "Emitted")
    /\ UNCHANGED <<handle, legacyJson, req, locals, calls, result>>

\* chatbot.py: get_json(force=True), then .get(..., '').strip() twice; every
\* exception lands in the except branch.
ParseRemote(w) ==
    /\ pc[w] = "received"
    /\ RequestOf(w).variant = "remote"
    /\ RequestOf(w).method = "POST"
    /\ LET body == RequestOf(w).body
           c1 == Get(body.obj, "country1", Str(<<>>))
           c2 == Get(body.obj, "country2", Str(<<>>))
       IN  CASE body.kind = "malformed" ->
                  /\ Respond(w, ErrorResponse("400 Bad Request: Failed to decode JSON object"), "Failed")
                  /\ UNCHANGED locals
             [] body.kind = "array" ->
                  /\ Respond(w, ErrorResponse("'list' object has no attribute 'get'"), "Failed")
                  /\ UNCHANGED locals
             [] body.kind = "object" /\ (c1.type # "str" \/ c2.type # "str") ->
                  /\ Respond(w, ErrorResponse("'NoneType' object has no attribute 'strip'"), "Failed")
                  /\ UNCHANGED locals
             [] OTHER ->
                  /\ locals' = Set(locals, w,
                        [locals[w] EXCEPT !.country1 = Strip(c1.s),
                                          !.country2 = Strip(c2.s)])
                  /\ pc' = Set(pc, w, "parsed")
                  /\ UNCHANGED <<resp, hist>>
    /\ UNCHANGED <<handle, legacyJson, req, calls, result>>

\* chatbot.py: if not country1 or not country2
ValidateRemote(w) ==
    /\ pc[w] = "parsed"
    /\ IF locals[w].country1 = <<>> \/ locals[w].country2 = <<>>
       THEN Respond(w, RejectResponse, "Rejected")
       ELSE /\ pc' = Set(pc, w, "validated")
            /\ hist' = Stage(w, "Validated")
            /\ UNCHANGED resp
    /\ UNCHANGED <<handle, legacyJson, req, locals, calls, result>>

\* chatbot.py: the messages argument of the completion call
BuildMessages(w) ==
    /\ pc[w] = "validated"
    /\ locals' = Set(locals, w,
          [locals[w] EXCEPT
              !.messages = Messages(locals[w].country1, locals[w].country2)])
    /\ pc' = Set(pc, w, "prompted")
    /\ hist' = Stage(w, "Prompted")
    /\ UNCHANGED <<handle, legacyJson, req, calls, result, resp>>

\* chatbot.py: client.chat.completions.create(...): it raises, or returns a
\* completion with zero or one choice.
CreateCompletion(w) ==
    /\ pc[w] = "prompted"
    /\ RequestOf(w).variant = "remote"
    /\ handle = "loaded"
    /\ calls' = Set(calls, w, Append(calls[w], CompletionArgs(locals[w].messages)))
    /\ \/ \E m \in BackendFaults :
            /\ result' = Set(result, w, [NoResult EXCEPT !.kind = "raise", !.msg = m])
            /\ Respond(w, ErrorResponse(m), "Failed")
       \/ \E ch \in {<<>>} \cup {<<c>> : c \in Contents} :
            /\ result' = Set(result, w,
                  [NoResult EXCEPT !.kind = "completion", !.choices = ch])
            /\ pc' = Set(pc, w, "completed")
            /\ UNCHANGED <<resp, hist>>
    /\ UNCHANGED <<handle, legacyJson, req, locals>>

\* chatbot.py: response_text = completion.choices[0].message.content
ExtractResponse(w) ==
    /\ pc[w] = "completed"
    /\ IF result[w].choices = <<>>
       THEN /\ Respond(w, ErrorResponse("list index out of range"), "Failed")
            /\ UNCHANGED result
       ELSE /\ result' = Set(result, w, [result[w] EXCEPT !.text = result[w].choices[1]])
            /\ pc' = Set(pc, w, "generated")
            /\ hist' = Stage(w, "Generated")
            /\ UNCHANGED resp
    /\ UNCHANGED <<handle, legacyJson, req, locals, calls>>

\* chatbot.py: jsonify({'response': response_text}) plus the header
EmitRemote(w) ==
    /\ pc[w] = "generated"
    /\ RequestOf(w).variant = "remote"
    /\ Respond(w, SuccessResponse(result[w].text), "Emitted")
    /\ UNCHANGED <<handle, legacyJson, req, locals, calls, result>>

\* app.py: user_input = request.json.get("message"); nothing catches a fault.
ParseLocal(w) ==
    /\ pc[w] = "received"
    /\ RequestOf(w).variant = "local"
    /\ RequestOf(w).method = "POST"
    /\ LET rq == RequestOf(w)
       IN  CASE rq.contentType # "application/json" ->
                  /\ Respond(w, HtmlError(IF legacyJson THEN 500 ELSE 415), "Failed")
                  /\ UNCHANGED locals
             [] rq.contentType = "application/json" /\ rq.body.kind = "malformed" ->
                  /\ Respond(w, HtmlError(400), "Failed")
                  /\ UNCHANGED locals
             [] rq.contentType = "application/json" /\ rq.body.kind = "array" ->
                  /\ Respond(w, HtmlError(500), "Failed")
                  /\ UNCHANGED locals
             [] OTHER ->
                  /\ locals' = Set(locals, w,
                        [locals[w] EXCEPT
                            !.user_input = Get(rq.body.obj, "message", JsonNull)])
                  /\ pc' = Set(pc, w, "prompted")
                  /\ hist' = Stage(w, "Prompted")
                  /\ UNCHANGED resp
    /\ UNCHANGED <<handle, legacyJson, req, calls, result>>

\* app.py: tokenizer.encode, model.generate, tokenizer.decode. encode rejects
\* a non-string; generate raises or returns the prompt with a continuation.
GenerateLocal(w) ==
    /\ pc[w] = "prompted"
    /\ RequestOf(w).variant = "local"
    /\ handle = "loaded"
    /\ IF locals[w].user_input.type # "str"
       THEN /\ Respond(w, HtmlError(500), "Failed")
            /\ UNCHANGED <<calls, result>>
       ELSE /\ calls' = Set(calls, w, Append(calls[w], GenerateArgs(locals[w].user_input)))
            /\ \/ \E m \in BackendFaults :
                    /\ result' = Set(result, w, [NoResult EXCEPT !.kind = "raise", !.msg = m])
                    /\ Respond(w, HtmlError(500), "Failed")
               \/ \E c \in Continuations :
                    /\ result' = Set(result, w,
                          [NoResult EXCEPT !.kind = "text",
                                           !.text = Str(locals[w].user_input.s \o c)])
                    /\ pc' = Set(pc, w, "generated")
                    /\ hist' = Stage(w, "Generated")
                    /\ UNCHANGED resp
    /\ UNCHANGED <<handle, legacyJson, req, locals>>

\* app.py: jsonify({"response": response}) plus the header
EmitLocal(w) ==
    /\ pc[w] = "generated"
    /\ RequestOf(w).variant = "local"
    /\ Respond(w, SuccessResponse(result[w].text), "Emitted")
    /\ UNCHANGED <<handle, legacyJson, req, locals, calls, result>>

\* The response is sent and everything built for the request is discarded.
Close(w) ==
    /\ pc[w] = "done"
    /\ pc' = Set(pc, w, "idle")
    /\ req' = Set(req, w, NoReq)
    /\ locals' = Set(locals, w, NoLocals)
    /\ calls' = Set(calls, w, <<>>)
    /\ result' = Set(result, w, NoResult)
    /\ resp' = Set(resp, w, NoResp)
    /\ hist' = Set(hist, w, <<>>)
    /\ UNCHANGED <<handle, legacyJson>>

\* One request at a time.
Next ==
    \/ \E rq \in Requests : Arrive("w1", rq)
    \/ Preflight("w1")
    \/ AutomaticOptions("w1")
    \/ ParseRemote("w1")
    \/ ValidateRemote("w1")
    \/ BuildMessages("w1")
    \/ CreateCompletion("w1")
    \/ ExtractResponse("w1")
    \/ EmitRemote("w1")
    \/ ParseLocal("w1")
    \/ GenerateLocal("w1")
    \/ EmitLocal("w1")
    \/ Close("w1")

Spec == Init /\ [][Next]_vars

\* Two workers handling requests side by side, steps interleaved freely.
NextConc ==
    \E w \in Workers :
        \/ \E rq \in ConcRequests : Arrive(w, rq)
        \/ Preflight(w)
        \/ AutomaticOptions(w)
        \/ ParseRemote(w)
        \/ ValidateRemote(w)
        \/ BuildMessages(w)
        \/ CreateCompletion(w)
        \/ ExtractResponse(w)
        \/ EmitRemote(w)
        \/ ParseLocal(w)
        \/ GenerateLocal(w)
        \/ EmitLocal(w)
        \/ Close(w)

SpecConc == Init /\ [][NextConc]_vars

\* ------------------------------------------------------------------ claims
IsPost(w) == req[w].method = "POST"
Done(w) == pc[w] = "done"
Trimmed(v) == Strip(v.s)

\* Field k of a JSON object is absent, empty or whitespace-only.
FieldMissing(obj, k) ==
    k \notin DOMAIN obj \/ (obj[k].type = "str" /\ Trimmed(obj[k]) = <<>>)
MissingRequired(rq) ==
    /\ rq.body.kind = "object"
    /\ \E k \in RequiredFields(rq.variant) : FieldMissing(rq.body.obj, k)

\* Every required field is present and a string that is non-empty once trimmed.
ValidInput(rq) ==
    /\ rq.body.kind = "object"
    /\ \A k \in RequiredFields(rq.variant) :
        /\ k \in DOMAIN rq.body.obj
        /\ rq.body.obj[k].type = "str"
        /\ Trimmed(rq.body.obj[k]) # <<>>

\* The body is declared the way the handler's JSON accessor accepts it.
DeclaredJson(rq) ==
    rq.variant = "local" => rq.contentType = "application/json"

\* The backend call, or the extraction of its first candidate, raised.
Raised(w) ==
    \/ result[w].kind = "raise"
    \/ result[w].kind = "completion" /\ result[w].choices = <<>> /\ Done(w)
FaultText(w) ==
    IF result[w].kind = "raise" THEN result[w].msg ELSE "list index out of range"

\* The backend call returned a candidate.
Returned(w) ==
    \/ result[w].kind = "text"
    \/ result[w].kind = "completion" /\ result[w].choices # <<>>
GeneratedText(w) ==
    IF result[w].kind = "completion" THEN result[w].choices[1] ELSE result[w].text

\* C1: in both services a POST whose required field is absent, empty or
\* whitespace-only ends with status 400 and a JSON error string, which in the
\* remote variant is "Both countries are required".
C1_MissingFieldRejected ==
    \A w \in Workers :
        (IsPost(w) /\ Done(w) /\ DeclaredJson(req[w]) /\ MissingRequired(req[w])) =>
            /\ resp[w].status = 400
            /\ resp[w].ctype = "json"
            /\ resp[w].key = "error"
            /\ req[w].variant = "remote" =>
                  resp[w].value = Str(<<"Both countries are required">>)

\* C2: in the remote variant, when the backend call or the extraction of its
\* first candidate raises, the request ends with status 500 and a JSON body
\* whose error field is the exception's message; it never ends with 200.
C2_BackendFaultIs500 ==
    \A w \in Workers :
        (req[w].variant = "remote" /\ Raised(w) /\ resp[w] # NoResp) =>
            /\ resp[w].status = 500
            /\ resp[w].ctype = "json"
            /\ resp[w].key = "error"
            /\ resp[w].value = Str(<<FaultText(w)>>)

C2_Witness ==
    \E w \in Workers :
        /\ req[w].variant = "remote"
        /\ result[w].kind = "raise"
        /\ Done(w)
        /\ resp[w].status = 500

\* C3: in both services every OPTIONS request is answered with status 200 and
\* the three Access-Control-Allow-* headers, and the backend is not invoked.
C3_PreflightAnswered ==
    \A w \in Workers :
        (req[w].method = "OPTIONS" /\ Done(w)) =>
            /\ resp[w].status = 200
            /\ PreflightHeaders \subseteq resp[w].headers
            /\ calls[w] = <<>>

\* C4 as stated: in both services every POST whose required fields are present
\* and non-empty after trimming ends with status 200 and a JSON body whose
\* response field is a non-empty string.
C4_ValidRequestIs200 ==
    \A w \in Workers :
        (IsPost(w) /\ Done(w) /\ DeclaredJson(req[w]) /\ ValidInput(req[w])) =>
            /\ resp[w].status = 200
            /\ resp[w].ctype = "json"
            /\ resp[w].key = "response"
            /\ resp[w].value.type = "str"
            /\ resp[w].value.s # <<>>

\* C4 as amended: a POST with valid required fields (sent as application/json
\* in the local variant) whose backend call returned a candidate ends with
\* status 200 and a JSON body whose response field is the backend's text.
C4_ValidRequestReturnedIs200 ==
    \A w \in Workers :
        ( /\ IsPost(w) /\ Done(w) /\ ValidInput(req[w])
          /\ DeclaredJson(req[w])
          /\ Returned(w) ) =>
            /\ resp[w].status = 200
            /\ resp[w].ctype = "json"
            /\ resp[w].key = "response"
            /\ resp[w].value = GeneratedText(w)

C4_Witness ==
    \E w \in Workers :
        /\ IsPost(w) /\ Done(w) /\ ValidInput(req[w])
        /\ Returned(w)
        /\ GeneratedText(w).type = "str" /\ GeneratedText(w).s # <<>>
        /\ resp[w].status = 200

\* C5: every response either service sends for /chat, on the success path and
\* on every error path, carries Access-Control-Allow-Origin: *.
C5_AlwaysAllowOrigin ==
    \A w \in Workers : resp[w] # NoResp => <<ACAO, "*">> \in resp[w].headers

\* C6: in both services every POST, malformed bodies and backend faults
\* included, is answered with a JSON body holding response or error.
C6_AlwaysJsonEnvelope ==
    \A w \in Workers :
        (IsPost(w) /\ Done(w)) =>
            /\ resp[w].ctype = "json"
            /\ resp[w].key \in {"response", "error"}

\* C7: a POST moves through Received, Validated, Prompted, Generated, Emitted
\* in order and ends Emitted (200), Rejected (400) or Failed (500); Rejected
\* only from failed validation, Failed only after the backend call raised and
\* never before validation.
C7_LinearStages ==
    \A w \in Workers :
        (IsPost(w) /\ Done(w) /\ DeclaredJson(req[w])) =>
            /\ resp[w].status \in {200, 400, 500}
            /\ resp[w].status = 200 =>
                  hist[w] = <<"Received", "Validated", "Prompted", "Generated", "Emitted">>
            /\ resp[w].status = 400 =>
                  /\ hist[w] = <<"Received", "Rejected">>
                  /\ MissingRequired(req[w])
            /\ resp[w].status = 500 =>
                  /\ Raised(w)
                  /\ SubSeq(hist[w], 1, 2) = <<"Received", "Validated">>
                  /\ hist[w][Len(hist[w])] = "Failed"

\* C8: the backend call is a function of the validated input alone: the local
\* variant passes the message unchanged with max_length 100, one sequence and
\* no repeated 2-gram; the remote variant sends the system instruction and the
\* template with trimmed country1 and country2, temperature 0.7, max_tokens 500.
C8_PromptFromInput ==
    \A w \in Workers :
        calls[w] # <<>> =>
            LET o == req[w].body.obj
            IN  IF req[w].variant = "local"
                THEN calls[w][1] =
                        [prompt |-> o["message"], max_length |-> 100,
                         num_return_sequences |-> 1, no_repeat_ngram_size |-> 2]
                ELSE calls[w][1] =
                        [model |-> "gpt-3.5-turbo",
                         messages |->
                            << [role |-> "system", content |-> <<SystemInstruction>>],
                               [role |-> "user",
                                content |-> <<TemplateHead>> \o Trimmed(o["country1"])
                                            \o <<TemplateAnd>> \o Trimmed(o["country2"])
                                            \o <<TemplateTail>>] >>,
                         temperature |-> 7, max_tokens |-> 500]

C8_Witness ==
    \E w \in Workers :
        /\ req[w].variant = "remote"
        /\ calls[w] # <<>>
        /\ Trimmed(req[w].body.obj["country1"]) # req[w].body.obj["country1"].s
        /\ Trimmed(req[w].body.obj["country1"]) # Trimmed(req[w].body.obj["country2"])

\* C9: under any interleaving no handler writes the backend handle or another
\* request's state, and a response depends only on its own request and the
\* backend result returned for it.
C9_Isolation ==
    /\ [][ /\ handle' = handle
           /\ legacyJson' = legacyJson
           /\ \E w \in Workers :
                \A v \in Workers \ {w} :
                    /\ pc'[v] = pc[v] /\ req'[v] = req[v]
                    /\ locals'[v] = locals[v] /\ calls'[v] = calls[v]
                    /\ result'[v] = result[v] /\ resp'[v] = resp[v] ]_vars
    /\ [](\A u, v \in Workers :
            ( /\ Done(u) /\ Done(v)
              /\ req[u] = req[v]
              /\ result[u] = result[v] ) => resp[u] = resp[v])

C9_Witness ==
    /\ Done("w1") /\ Done("w2")
    /\ req["w1"] = req["w2"]
    /\ result["w1"] = result["w2"]
    /\ calls["w1"] # <<>>
    /\ resp["w1"].status = 200

\* C10: the backend is invoked at most once per request, only after validation
\* succeeded, never for a request ending with 400 and never for OPTIONS.
C10_BackendOnceAfterValidation ==
    \A w \in Workers :
        /\ Len(calls[w]) <= 1
        /\ calls[w] # <<>> => ValidInput(req[w])
        /\ resp[w].status = 400 => calls[w] = <<>>
        /\ req[w].method = "OPTIONS" => calls[w] = <<>>

====
